---- MODULE Spec2Model ----
(***************************************************************************)
(* Model of td_authentication.py: the TDAuthentication token manager.      *)
(*                                                                         *)
(* The manager is single threaded.  A call (the constructor, headers(),    *)
(* the access_token property, __repr__) runs until it blocks on one of its *)
(* external collaborators: the browser that yields the authorization code  *)
(* and the token endpoint.  One action of the model is the code that runs  *)
(* from one such blocking point to the next (or to the return of the call).*)
(* Local computation takes no model time; the clock advances by Tick.      *)
(*                                                                         *)
(* Python values: None is the empty sequence, any other value v of an      *)
(* optional field is the one-element sequence <<v>>.                       *)
(***************************************************************************)
EXTENDS Integers, Sequences, FiniteSets, TLC

VARIABLES
    store_refresh_token,  \* self._store_refresh_token
    is_single_access,     \* self._is_single_access
    tokens,               \* self._tokens
    logged_in_state,      \* self.logged_in_state
    file,                 \* ./{user}refreshtoken.pickle: None or <<pair>>
    now,                  \* datetime.now(), in seconds
    ticks,                \* number of clock advances so far
    pc,                   \* where the running call is blocked
    op,                   \* the public call in progress (or last finished)
    args,                 \* its arguments
    attempt,              \* loop index of _get_access_token
    request,              \* payload of the POST in flight, None if none
    trace,                \* calls and endpoint traffic of the call in op
    result                \* what the last finished call returned or raised

vars == <<store_refresh_token, is_single_access, tokens, logged_in_state,
          file, now, ticks, pc, op, args, attempt, request, trace, result>>

----------------------------------------------------------------------------
(* Bounds of the model *)

MaxTicks == 2

(* Program constants *)

ACCESS_DURATION == 1800

REFRESH_DURATION == 7776000

max_retries == 3

REFRESH_MARGIN == 86400

SINGLE_ACCESS_MARGIN == 30

ACCESS_MARGIN == 5

HTTP_OK == 200

----------------------------------------------------------------------------
(* Values *)

None == <<>>

Some(v) == <<v>>

Get(o) == o[1]

AccessTokenValues == {"A1", "A2"}

RefreshTokenValues == {"R1", "R2"}

PersistedTokenValues == {"R0"}

AccessCodes == {None, Some("code")}

ErrorStatuses == {500}

\* Clock advances between calls: one second, and the distances from an
\* issuance to the thresholds the mode compares with: the renewal margin
\* (1800-30 in single-access mode, 1800-5 otherwise), the access
\* expiration (1800) and, where a refresh token is kept, its last day
\* (7776000-86400).
Delays ==
    IF is_single_access
    THEN {1, ACCESS_DURATION - SINGLE_ACCESS_MARGIN, ACCESS_DURATION}
    ELSE {1, ACCESS_DURATION - ACCESS_MARGIN, ACCESS_DURATION,
          REFRESH_DURATION - REFRESH_MARGIN}

\* While a call is blocked on the browser or on the endpoint.
BlockedDelays == {1}

\* Expirations a record left on disk by an earlier run can carry, seen
\* from the start of this run (time 0): expired, inside the last day,
\* exactly one day ahead, fresh.
PersistedExpirations == {0 - 10, REFRESH_MARGIN - 1, REFRESH_MARGIN,
                         REFRESH_DURATION - 100}

\* The headers(endpoint, mode) calls the caller makes: a relative endpoint
\* with a leading slash in JSON mode, an absolute one without mode.
HeadersCalls ==
    { [endpoint |-> [scheme |-> "", path |-> <<"/", "quotes">>],
       mode |-> Some("application/json")],
      [endpoint |-> [scheme |-> "https", path |-> <<"host", "/", "quotes">>],
       mode |-> None] }

\* JSON bodies of the token endpoint.  The code grant yields both tokens,
\* the refresh grant only an access token.
CodeGrantBodies ==
    { [access_token |-> Some(a), refresh_token |-> Some(r)] :
        a \in AccessTokenValues, r \in RefreshTokenValues }

RefreshGrantBodies ==
    { [access_token |-> Some(a), refresh_token |-> None] :
        a \in AccessTokenValues }

ErrorBody == [access_token |-> None, refresh_token |-> None]

CodeGrantReplies ==
    { [status_code |-> HTTP_OK, json |-> b] : b \in CodeGrantBodies } \cup
    { [status_code |-> s, json |-> ErrorBody] : s \in ErrorStatuses }

RefreshGrantReplies ==
    { [status_code |-> HTTP_OK, json |-> b] : b \in RefreshGrantBodies } \cup
    { [status_code |-> s, json |-> ErrorBody] : s \in ErrorStatuses }

----------------------------------------------------------------------------
(* The manager's state as one record, so that the methods compose *)

Self == [tokens |-> tokens, logged_in_state |-> logged_in_state,
         file |-> file, pc |-> pc, op |-> op, args |-> args,
         attempt |-> attempt, request |-> request, trace |-> trace,
         result |-> result]

Becomes(s) ==
    /\ tokens' = s.tokens
    /\ logged_in_state' = s.logged_in_state
    /\ file' = s.file
    /\ pc' = s.pc
    /\ op' = s.op
    /\ args' = s.args
    /\ attempt' = s.attempt
    /\ request' = s.request
    /\ trace' = s.trace
    /\ result' = s.result
    /\ UNCHANGED <<store_refresh_token, is_single_access, now, ticks>>

Log(s, e) == [s EXCEPT !.trace = Append(@, e)]

\* One entry of the trace: what was called or exchanged, the state the
\* called method starts from (seen: the access expiration for
\* _authenticate, the refresh expiration for _refresh_access_token, the
\* persistence file for _initialize_authentication, the token fields and
\* the file for _get_access_token), and the message exchanged: of a
\* request its grant type and refresh token, of a reply all of it.  The
\* time is kept (at) where the code reads the clock: the checks of
\* _authenticate and _refresh_access_token and the token updates that
\* follow an HTTP 200; it is 0 elsewhere.
ReadsClock(kind, reply) ==
    \/ kind \in {"authenticate", "refresh_access_token"}
    \/ kind = "reply" /\ reply.status_code = HTTP_OK

Event(kind, seen, payload, reply) ==
    [kind |-> kind, at |-> IF ReadsClock(kind, reply) THEN now ELSE 0,
     seen |-> seen,
     payload |-> [grant_type |-> payload.grant_type,
                  refresh_token |-> payload.refresh_token],
     reply |-> reply]

NoPayload == [grant_type |-> "", access_type |-> None, code |-> None,
              refresh_token |-> None]

NoReply == [status_code |-> 0, json |-> ErrorBody]

----------------------------------------------------------------------------
(* Return of the public calls *)

Returned(s, kind, value) ==
    [s EXCEPT !.pc = "idle", !.result = [kind |-> kind, value |-> value]]

\* An exception propagates out of the public call; out of the constructor
\* it leaves no object behind.
Raise(s, exc) ==
    [s EXCEPT !.pc = IF s.op = "init" THEN "failed" ELSE "idle",
              !.result = [kind |-> "raise", value |-> exc]]

\* str.lstrip('/')
RECURSIVE lstrip(_)
lstrip(path) ==
    IF path # <<>> /\ Head(path) = "/" THEN lstrip(Tail(path)) ELSE path

BaseUrl == [scheme |-> "https",
            path |-> <<"api.tdameritrade.com", "/", "v1", "/">>]

\* up.urljoin(base, relative) for a relative path without leading slash
urljoin(base, path) == [scheme |-> base.scheme, path |-> base.path \o path]

ResolveUrl(endpoint) ==
    IF endpoint.scheme \in {"http", "https"}
    THEN endpoint
    ELSE urljoin(BaseUrl, lstrip(endpoint.path))

MergedHeaders(s, mode) ==
    LET auth == "Authorization" :> <<"Bearer ", Get(s.tokens.access_token)>>
    IN  IF mode = Some("application/json")
        THEN auth @@ ("Content-type" :> "application/json")
        ELSE auth

\* headers(), after self._authenticate()
headers_return(s) ==
    IF s.logged_in_state
    THEN Returned(s, "pair",
                  <<ResolveUrl(s.args.endpoint), MergedHeaders(s, s.args.mode)>>)
    ELSE Returned(s, "none_pair", <<None, None>>)

\* access_token property, after self._authenticate()
access_token_return(s) ==
    IF s.logged_in_state
    THEN Returned(s, "token", s.tokens.access_token)
    ELSE Returned(s, "False", FALSE)

\* The code after the call that blocked: _authenticate, _refresh_access_token
\* and _initialize_authentication have nothing left to do, so control is back
\* in the public call.
Return(s) ==
    CASE s.op = "init"         -> Returned(s, "constructed", None)
      [] s.op = "headers"      -> headers_return(s)
      [] s.op = "access_token" -> access_token_return(s)
      [] OTHER                 -> Returned(s, "none", None)

----------------------------------------------------------------------------
(* Token state updates *)

pickle_dump(refresh_token, refresh_expiration) ==
    Some(<<Get(refresh_token), Get(refresh_expiration)>>)

pickle_load(f) == <<Some(Get(f)[1]), Some(Get(f)[2])>>

\* Faulty variant: the record is never written to disk.
update_refresh_token_unsaved(s, token_response) ==
    [s EXCEPT !.tokens.refresh_token = token_response.refresh_token,
              !.tokens.refresh_expiration = Some(now + REFRESH_DURATION)]

\* Faulty variant: the record on disk carries the issuance time instead of
\* the expiration.
update_refresh_token_dumps_now(s, token_response) ==
    LET t == [s EXCEPT !.tokens.refresh_token = token_response.refresh_token,
                       !.tokens.refresh_expiration =
                           Some(now + REFRESH_DURATION)]
    IN  IF store_refresh_token
        THEN [t EXCEPT !.file = pickle_dump(t.tokens.refresh_token, Some(now))]
        ELSE t

\* Faulty variant: the refresh token gets the access token's lifetime.
update_refresh_token_short(s, token_response) ==
    LET t == [s EXCEPT !.tokens.refresh_token = token_response.refresh_token,
                       !.tokens.refresh_expiration =
                           Some(now + ACCESS_DURATION)]
    IN  IF store_refresh_token
        THEN [t EXCEPT !.file = pickle_dump(t.tokens.refresh_token,
                                            t.tokens.refresh_expiration)]
        ELSE t

update_refresh_token(s, token_response) ==
    LET t == [s EXCEPT !.tokens.refresh_token = token_response.refresh_token,
                       !.tokens.refresh_expiration =
                           Some(now + REFRESH_DURATION)]
    IN  IF store_refresh_token
        THEN [t EXCEPT !.file = pickle_dump(t.tokens.refresh_token,
                                            t.tokens.refresh_expiration)]
        ELSE t

\* Faulty variant: the access token given the refresh token's lifetime.
update_access_token_long(s, token_response) ==
    [s EXCEPT !.tokens.access_token = token_response.access_token,
              !.tokens.access_expiration = Some(now + REFRESH_DURATION),
              !.logged_in_state = TRUE]

update_access_token(s, token_response) ==
    [s EXCEPT !.tokens.access_token = token_response.access_token,
              !.tokens.access_expiration = Some(now + ACCESS_DURATION),
              !.logged_in_state = TRUE]

----------------------------------------------------------------------------
(* Full authentication: _get_access_token *)

\* for _ in range(max_retries): the next attempt starts the browser step,
\* or the loop is exhausted and the method returns.
\* Faulty variant: one attempt too many.
NextAttempt_one_more(s) ==
    IF s.attempt <= max_retries
    THEN [s EXCEPT !.pc = "get_access_code"]
    ELSE Return(s)

NextAttempt(s) ==
    IF s.attempt < max_retries
    THEN [s EXCEPT !.pc = "get_access_code"]
    ELSE Return(s)

get_access_token(s) ==
    NextAttempt(Log([s EXCEPT !.attempt = 0],
                    Event("get_access_token", <<s.tokens, s.file>>,
                          NoPayload, NoReply)))

AuthPayload(access_code) ==
    [grant_type |-> "authorization_code",
     access_type |-> IF ~is_single_access THEN Some("offline") ELSE None,
     code |-> access_code,
     refresh_token |-> None]

\* _get_access_code returns (a code, or None without chromedriver) and the
\* authorization_code exchange is posted.
post_authorization_code(s, access_code) ==
    LET s1 == Log(s, Event("get_access_code", None, NoPayload, NoReply))
    IN  [Log(s1, Event("post", None, AuthPayload(access_code), NoReply))
            EXCEPT !.pc = "post_authorization_code",
                   !.request = Some(AuthPayload(access_code))]

\* The token endpoint answers the authorization_code exchange.
\* Faulty variant: the refresh token is kept in single-access mode too.
auth_reply_keeps_refresh(s, reply) ==
    LET s1 == Log([s EXCEPT !.request = None],
                  Event("reply", None, NoPayload, reply))
    IN  IF reply.status_code = HTTP_OK
        THEN Return(update_access_token(
                        update_refresh_token(s1, reply.json), reply.json))
        ELSE NextAttempt([s1 EXCEPT !.logged_in_state = FALSE,
                                    !.attempt = @ + 1])

\* Faulty variant: a refused exchange does not clear logged_in_state.
auth_reply_stays_logged_in(s, reply) ==
    LET s1 == Log([s EXCEPT !.request = None],
                  Event("reply", None, NoPayload, reply))
    IN  IF reply.status_code = HTTP_OK
        THEN LET s2 == IF ~is_single_access
                       THEN update_refresh_token(s1, reply.json)
                       ELSE s1
             IN  Return(update_access_token(s2, reply.json))
        ELSE NextAttempt([s1 EXCEPT !.attempt = @ + 1])

\* Faulty variant: a full authentication installs the access token only.
auth_reply_no_refresh(s, reply) ==
    LET s1 == Log([s EXCEPT !.request = None],
                  Event("reply", None, NoPayload, reply))
    IN  IF reply.status_code = HTTP_OK
        THEN Return(update_access_token(s1, reply.json))
        ELSE NextAttempt([s1 EXCEPT !.logged_in_state = FALSE,
                                    !.attempt = @ + 1])

auth_reply(s, reply) ==
    LET s1 == Log([s EXCEPT !.request = None],
                  Event("reply", None, NoPayload, reply))
    IN  IF reply.status_code = HTTP_OK
        THEN LET s2 == IF ~is_single_access
                       THEN update_refresh_token(s1, reply.json)
                       ELSE s1
             IN  Return(update_access_token(s2, reply.json))
        ELSE NextAttempt([s1 EXCEPT !.logged_in_state = FALSE,
                                    !.attempt = @ + 1])

----------------------------------------------------------------------------
(* Refresh: _refresh_access_token *)

RefreshPayload(s) ==
    [grant_type |-> "refresh_token", access_type |-> None, code |-> None,
     refresh_token |-> s.tokens.refresh_token]

request_refresh_token(s) ==
    [Log(s, Event("post", None, RefreshPayload(s), NoReply))
        EXCEPT !.pc = "post_refresh_token",
               !.request = Some(RefreshPayload(s))]

\* Faulty variant: the one-day margin is missing.
RefreshTokenStale_expired(s) ==
    Get(s.tokens.refresh_expiration) < now

RefreshTokenStale(s) ==
    Get(s.tokens.refresh_expiration) - REFRESH_MARGIN < now

refresh_access_token(s) ==
    LET s1 == Log(s, Event("refresh_access_token", s.tokens.refresh_expiration,
                             NoPayload, NoReply))
    IN  IF s.tokens.refresh_expiration = None
        THEN Raise(s1, "TypeError")
        ELSE IF RefreshTokenStale(s1)
        THEN get_access_token(s1)
        ELSE request_refresh_token(s1)

\* The token endpoint answers the refresh_token exchange.
\* Faulty variant: a successful refresh also extends the refresh token.
refresh_reply_extends_refresh(s, reply) ==
    LET s1 == Log([s EXCEPT !.request = None],
                  Event("reply", None, NoPayload, reply))
    IN  IF reply.status_code # HTTP_OK
        THEN get_access_token([s1 EXCEPT !.logged_in_state = FALSE])
        ELSE Return(update_access_token(
                 [s1 EXCEPT !.tokens.refresh_expiration =
                                Some(now + REFRESH_DURATION)],
                 reply.json))

\* Faulty variant: a refused refresh does not clear logged_in_state.
refresh_reply_stays_logged_in(s, reply) ==
    LET s1 == Log([s EXCEPT !.request = None],
                  Event("reply", None, NoPayload, reply))
    IN  IF reply.status_code # HTTP_OK
        THEN get_access_token(s1)
        ELSE Return(update_access_token(s1, reply.json))

refresh_reply(s, reply) ==
    LET s1 == Log([s EXCEPT !.request = None],
                  Event("reply", None, NoPayload, reply))
    IN  IF reply.status_code # HTTP_OK
        THEN get_access_token([s1 EXCEPT !.logged_in_state = FALSE])
        ELSE Return(update_access_token(s1, reply.json))

----------------------------------------------------------------------------
(* Authenticate before use: _authenticate *)

\* Faulty variant: single-access mode renews with the 5 s margin.
SingleAccessDue_short(s) ==
    Get(s.tokens.access_expiration) - ACCESS_MARGIN < now

SingleAccessDue(s) ==
    Get(s.tokens.access_expiration) - SINGLE_ACCESS_MARGIN < now

\* Faulty variant: the margin added instead of subtracted.
AccessDue_late(s) ==
    Get(s.tokens.access_expiration) + ACCESS_MARGIN < now

\* Faulty variant: renewal only once the token has expired.
AccessDue_expired(s) ==
    Get(s.tokens.access_expiration) < now

\* Faulty variant: renewal already at the margin itself.
AccessDue_eager(s) ==
    Get(s.tokens.access_expiration) - ACCESS_MARGIN <= now

AccessDue(s) ==
    Get(s.tokens.access_expiration) - ACCESS_MARGIN < now

\* None - timedelta(...) raises TypeError in whichever branch evaluates it:
\* the first condition when single access, the elif otherwise.
authenticate(s) ==
    LET s1 == Log(s, Event("authenticate", s.tokens.access_expiration,
                             NoPayload, NoReply))
    IN  IF s.tokens.access_expiration = None
        THEN Raise(s1, "TypeError")
        ELSE IF is_single_access /\ SingleAccessDue(s1)
        THEN get_access_token(s1)
        ELSE IF AccessDue(s1)
        THEN refresh_access_token(s1)
        ELSE Return(s1)

\* A public call starts: its trace and result are fresh.
Begin(s, name, a) ==
    [s EXCEPT !.op = name, !.args = a, !.trace = <<>>,
              !.result = [kind |-> "pending", value |-> None]]

NoArgs == [endpoint |-> [scheme |-> "", path |-> <<>>], mode |-> None]

----------------------------------------------------------------------------
(* Construction: __init__ has set the fields, _initialize_authentication  *)
(* runs next.                                                              *)

\* Faulty variant: the record is dropped only when persistence is off and
\* single access is on.
initialize_authentication_both(s) ==
    LET s0 == Log(s, Event("initialize_authentication", s.file,
                             NoPayload, NoReply))
    IN  IF s.file # None
        THEN IF ~store_refresh_token /\ is_single_access
             THEN get_access_token([s0 EXCEPT !.file = None])
             ELSE LET pair == pickle_load(s0.file)
                  IN  refresh_access_token(
                          [s0 EXCEPT !.tokens.refresh_token = pair[1],
                                     !.tokens.refresh_expiration = pair[2]])
        ELSE get_access_token(s0)

initialize_authentication(s) ==
    LET s0 == Log(s, Event("initialize_authentication", s.file,
                             NoPayload, NoReply))
    IN  IF s.file # None
        THEN IF ~store_refresh_token \/ is_single_access
             THEN get_access_token([s0 EXCEPT !.file = None])
             ELSE LET pair == pickle_load(s0.file)
                  IN  refresh_access_token(
                          [s0 EXCEPT !.tokens.refresh_token = pair[1],
                                     !.tokens.refresh_expiration = pair[2]])
        ELSE get_access_token(s0)

\* __repr__
repr(s) ==
    IF s.tokens.access_expiration = None
    THEN Raise(s, "TypeError")
    ELSE LET s1 == IF Get(s.tokens.access_expiration) < now
                   THEN [s EXCEPT !.logged_in_state = FALSE]
                   ELSE s
         IN  Returned(s1, "str", IF s1.logged_in_state THEN "True" ELSE "False")

----------------------------------------------------------------------------
(* Specification *)

PersistedRecords ==
    {None} \cup { pickle_dump(Some(r), Some(e)) :
                    r \in PersistedTokenValues, e \in PersistedExpirations }

Init ==
    /\ store_refresh_token \in BOOLEAN
    /\ is_single_access \in BOOLEAN
    /\ tokens = [access_token |-> None, access_expiration |-> None,
                 refresh_token |-> None, refresh_expiration |-> None]
    /\ logged_in_state = FALSE
    /\ file \in PersistedRecords
    /\ now = 0
    /\ ticks = 0
    /\ pc = "init"
    /\ op = "init"
    /\ args = NoArgs
    /\ attempt = 0
    /\ request = None
    /\ trace = <<>>
    /\ result = [kind |-> "pending", value |-> None]

InitializeAuthentication ==
    /\ pc = "init"
    /\ Becomes(initialize_authentication(Self))

GetAccessCode ==
    /\ pc = "get_access_code"
    /\ \E access_code \in AccessCodes :
           Becomes(post_authorization_code(Self, access_code))

AuthReply ==
    /\ pc = "post_authorization_code"
    /\ \E reply \in CodeGrantReplies : Becomes(auth_reply(Self, reply))

RefreshReply ==
    /\ pc = "post_refresh_token"
    /\ \E reply \in RefreshGrantReplies : Becomes(refresh_reply(Self, reply))

CallHeaders ==
    /\ pc = "idle"
    /\ \E a \in HeadersCalls :
           Becomes(authenticate(Begin(Self, "headers", a)))

CallAccessToken ==
    /\ pc = "idle"
    /\ Becomes(authenticate(Begin(Self, "access_token", NoArgs)))

CallRepr ==
    /\ pc = "idle"
    /\ Becomes(repr(Begin(Self, "repr", NoArgs)))

Tick ==
    /\ ticks < MaxTicks
    /\ \E d \in IF pc = "idle" THEN Delays ELSE BlockedDelays : now' = now + d
    /\ ticks' = ticks + 1
    /\ UNCHANGED <<store_refresh_token, is_single_access, tokens,
                   logged_in_state, file, pc, op, args, attempt, request,
                   trace, result>>

\* The process ends and a later one constructs the manager anew for the
\* same user with the same flags: __init__ resets the fields, the
\* persistence file is what the earlier process left.
NewInstance ==
    /\ pc = "idle"
    /\ tokens' = [access_token |-> None, access_expiration |-> None,
                  refresh_token |-> None, refresh_expiration |-> None]
    /\ logged_in_state' = FALSE
    /\ pc' = "init"
    /\ op' = "init"
    /\ args' = NoArgs
    /\ attempt' = 0
    /\ request' = None
    /\ trace' = <<>>
    /\ result' = [kind |-> "pending", value |-> None]
    /\ UNCHANGED <<store_refresh_token, is_single_access, file, now, ticks>>

Next ==
    \/ NewInstance
    \/ InitializeAuthentication
    \/ GetAccessCode
    \/ AuthReply
    \/ RefreshReply
    \/ CallHeaders
    \/ CallAccessToken
    \/ CallRepr
    \/ Tick

Spec == Init /\ [][Next]_vars

\* The browser step and the token endpoint (5 s timeout) return.
FairSpec ==
    Spec /\ WF_vars(GetAccessCode) /\ WF_vars(AuthReply)
         /\ WF_vars(RefreshReply)

----------------------------------------------------------------------------
(* Reading the trace *)

Last(seq) == seq[Len(seq)]

IsCall(i, name) == trace[i].kind = name

IsPost(i, grant_type) ==
    trace[i].kind = "post" /\ trace[i].payload.grant_type = grant_type

IsReply(i) == trace[i].kind = "reply"

\* The reply at i answers a post of the given grant type.
IsReplyTo(i, grant_type) ==
    i > 1 /\ IsReply(i) /\ IsPost(i - 1, grant_type)

IsOk(i) == trace[i].reply.status_code = HTTP_OK

Indices(P(_)) == { i \in DOMAIN trace : P(i) }

CodeGrantPosts == Indices(LAMBDA i : IsPost(i, "authorization_code"))

RefreshGrantPosts == Indices(LAMBDA i : IsPost(i, "refresh_token"))

CodeGrantSuccesses ==
    Indices(LAMBDA i : IsReplyTo(i, "authorization_code") /\ IsOk(i))

CodeGrantFailures ==
    Indices(LAMBDA i : IsReplyTo(i, "authorization_code") /\ ~IsOk(i))

\* The call in op has returned a value to its caller.
Finished(name) == pc = "idle" /\ op = name

\* The full authentication of the call in op has just succeeded: the last
\* entry of the trace is the HTTP 200 answer to a code exchange.
FullAuthSucceeded ==
    trace # <<>> /\ IsReplyTo(Len(trace), "authorization_code")
                /\ IsOk(Len(trace))

----------------------------------------------------------------------------
(* C1: whenever access_token returns a token or headers() returns a       *)
(* header mapping, the access expiration of the token handed out is       *)
(* strictly later than the time at which _authenticate made its check,    *)
(* in both modes and for any endpoint outcomes.                           *)

HandedOut ==
    /\ pc = "idle"
    /\ \/ op = "access_token" /\ result.kind = "token"
       \/ op = "headers" /\ result.kind = "pair"

\* C1: a token or header mapping handed out expires strictly after the
\* moment _authenticate made its check.
Thm_C1 ==
    HandedOut =>
        /\ IsCall(1, "authenticate")
        /\ tokens.access_expiration # None
        /\ Get(tokens.access_expiration) > trace[1].at

\* A token handed out after a renewal during which time passed.
Wit_C1 ==
    /\ HandedOut
    /\ \E i \in DOMAIN trace : IsReply(i) /\ IsOk(i) /\ trace[i].at > trace[1].at

----------------------------------------------------------------------------
(* C2: reading the access_token property never raises: it returns the     *)
(* current access token if logged in and the False sentinel otherwise,    *)
(* also after an initial full authentication whose 3 attempts all got     *)
(* HTTP 500.                                                              *)

\* C2, as claimed: the access_token read returns the token or False and
\* never raises.
Claim_C2 ==
    Finished("access_token") =>
        /\ result.kind # "raise"
        /\ IF logged_in_state
           THEN result.kind = "token" /\ result.value = tokens.access_token
           ELSE result.kind = "False"

----------------------------------------------------------------------------
(* C3: headers(endpoint, mode) returns, when logged in, a (url, headers)  *)
(* pair whose Authorization entry is 'Bearer ' + access_token, with a     *)
(* Content-type entry exactly when mode is 'application/json'; when not   *)
(* logged in it returns (None, None) instead of raising, in every         *)
(* reachable state.                                                       *)

\* C3, as claimed: headers() returns the bearer pair when logged in and
\* (None, None) otherwise, and never raises.
Claim_C3 ==
    Finished("headers") =>
        IF logged_in_state
        THEN /\ result.kind = "pair"
             /\ result.value[2]["Authorization"] =
                    <<"Bearer ", Get(tokens.access_token)>>
             /\ ("Content-type" \in DOMAIN result.value[2])
                    <=> (args.mode = Some("application/json"))
        ELSE /\ result.kind = "none_pair"
             /\ result.value = <<None, None>>

----------------------------------------------------------------------------
(* C4: when a full authentication receives HTTP 200, the manager is       *)
(* logged in with the response's access token, expiring 1800 s after the  *)
(* issuance moment; outside single-access mode the refresh token is the   *)
(* response's, expiring 7,776,000 s after the issuance moment; and the    *)
(* access_token property then returns that access token.                  *)

Issued == Last(trace).reply.json

IssuedAt == Last(trace).at

FullAuthInstalled ==
    FullAuthSucceeded =>
        /\ pc = "idle"
        /\ logged_in_state
        /\ tokens.access_token = Issued.access_token
        /\ tokens.access_expiration = Some(IssuedAt + 1800)
        /\ ~is_single_access =>
              /\ tokens.refresh_token = Issued.refresh_token
              /\ tokens.refresh_expiration = Some(IssuedAt + 7776000)
        /\ op = "access_token" =>
              result.kind = "token" /\ result.value = Issued.access_token

\* A read of access_token right after the successful full authentication.
ReadsIssuedToken ==
    (FullAuthSucceeded /\ now = IssuedAt /\ op' = "access_token"
        /\ trace' # trace)
    => (result'.kind = "token" /\ result'.value = Issued.access_token)

\* C4: a full authentication answered with HTTP 200 installs the issued
\* tokens with their expirations, and access_token then returns the token.
Thm_C4 == []FullAuthInstalled /\ [][ReadsIssuedToken]_vars

Wit_C4 ==
    /\ FullAuthSucceeded
    /\ ~is_single_access
    /\ op = "access_token"
    /\ Len(trace) > 5
    /\ IssuedAt > 0

----------------------------------------------------------------------------
(* C5: with store_refresh_token = True, after any _get_access_token call  *)
(* that received HTTP 200 the persistence file exists and holds the       *)
(* refresh token of that exchange with its expiration, the issuance       *)
(* moment plus 7,776,000 s.                                               *)

IssuedRecordOnDisk ==
    /\ file # None
    /\ Get(file) = <<Get(Issued.refresh_token), IssuedAt + 7776000>>

\* C5, as claimed: for every configuration that enables persistence the
\* issued refresh record is on disk after a successful full authentication.
Claim_C5 ==
    (store_refresh_token /\ FullAuthSucceeded) => IssuedRecordOnDisk

\* C5, as amended: the same with persistence enabled and not in
\* single-access mode.
Thm_C5 ==
    (store_refresh_token /\ ~is_single_access /\ FullAuthSucceeded)
        => IssuedRecordOnDisk

\* A persisted record of an earlier run is overwritten by a renewal.
Wit_C5 ==
    /\ store_refresh_token /\ ~is_single_access /\ FullAuthSucceeded
    /\ op = "init" /\ trace[1].seen # None
    /\ IssuedAt > 0

----------------------------------------------------------------------------
(* C6: if store_refresh_token is False or is_single_access is True, the   *)
(* persistence file does not exist in any state reachable after           *)
(* construction; and in single-access mode the in-memory refresh_token    *)
(* and refresh_expiration stay None forever.                              *)

Constructed == pc # "init"

\* C6: no persistence file after construction when persistence is off or
\* single access is on; no in-memory refresh token in single-access mode.
Thm_C6 ==
    /\ (Constructed /\ (~store_refresh_token \/ is_single_access))
          => file = None
    /\ is_single_access =>
          tokens.refresh_token = None /\ tokens.refresh_expiration = None

\* Single-access mode, started over a record left on disk, renewed by a
\* later call.
Wit_C6 ==
    /\ is_single_access /\ store_refresh_token
    /\ op = "access_token" /\ FullAuthSucceeded
    /\ file = None

----------------------------------------------------------------------------
(* C7: at construction, if a persisted record exists, store_refresh_token *)
(* is True and is_single_access is False, the record is loaded into       *)
(* refresh_token/refresh_expiration, the file is not deleted and          *)
(* _refresh_access_token is attempted before any authorization-code flow; *)
(* in every other case any persisted record is removed and a full         *)
(* authorization-code flow runs without any refresh-grant request.        *)

\* The persistence file as the constructor found it.
FoundOnDisk == trace[1].seen

LoadsRecord ==
    FoundOnDisk # None /\ store_refresh_token /\ ~is_single_access

IsCodeFlow(i) ==
    \/ IsCall(i, "get_access_token")
    \/ IsCall(i, "get_access_code")
    \/ IsPost(i, "authorization_code")

\* C7: the constructor loads the record and starts with
\* _refresh_access_token exactly when a record exists, persistence is on
\* and single access is off; otherwise it removes the record and runs the
\* authorization-code flow with no refresh grant.
Thm_C7 ==
    (op = "init" /\ Constructed) =>
        /\ IsCall(1, "initialize_authentication")
        /\ IF LoadsRecord
           THEN /\ IsCall(2, "refresh_access_token")
                /\ trace[2].seen = Some(Get(FoundOnDisk)[2])
                /\ file # None
                /\ CodeGrantSuccesses = {} =>
                      /\ tokens.refresh_token = Some(Get(FoundOnDisk)[1])
                      /\ tokens.refresh_expiration = Some(Get(FoundOnDisk)[2])
                      /\ file = FoundOnDisk
                /\ \A i \in DOMAIN trace : IsCodeFlow(i) => i > 2
           ELSE /\ IsCall(2, "get_access_token")
                /\ trace[2].seen[2] = None
                /\ CodeGrantSuccesses = {} => file = None
                /\ Len(trace) = 2 => pc = "get_access_code"
                /\ RefreshGrantPosts = {}
                /\ \A i \in DOMAIN trace : ~IsCall(i, "refresh_access_token")

\* A loaded record whose refresh grant was refused, so that the
\* authorization-code flow followed it.
Wit_C7 ==
    /\ op = "init" /\ Constructed /\ LoadsRecord
    /\ RefreshGrantPosts # {}
    /\ CodeGrantPosts # {}

----------------------------------------------------------------------------
(* C8: one call of _get_access_token makes at most 3 attempts, each one   *)
(* authorization-code retrieval followed by one authorization_code        *)
(* exchange; it stops at the first HTTP 200 and it terminates once the    *)
(* code retrieval and the exchange return.                                *)

FullAuthCalls == Indices(LAMBDA i : IsCall(i, "get_access_token"))

\* The entries after the call at g are attempts: retrieval, post, reply.
AttemptsAfter(g) ==
    \A j \in (g + 1)..Len(trace) :
        LET k == (j - g - 1) % 3
        IN  /\ k = 0 => IsCall(j, "get_access_code")
            /\ k = 1 => IsPost(j, "authorization_code")
            /\ k = 2 => IsReplyTo(j, "authorization_code")

BoundedRetries ==
    /\ Cardinality(FullAuthCalls) <= 1
    /\ \A g \in FullAuthCalls : AttemptsAfter(g) /\ Len(trace) - g <= 3 * 3
    /\ Cardinality(CodeGrantPosts) <= 3
    /\ \A i \in CodeGrantSuccesses : i = Len(trace) /\ pc = "idle"

InFullAuth == pc \in {"get_access_code", "post_authorization_code"}

\* C8: at most 3 attempts of one retrieval and one exchange each, none
\* after an HTTP 200, and the call terminates.
Thm_C8 == []BoundedRetries /\ (InFullAuth ~> pc = "idle")

\* Three attempts, the third one successful.
Wit_C8 ==
    /\ Cardinality(CodeGrantPosts) = 3
    /\ Cardinality(CodeGrantFailures) = 2
    /\ FullAuthSucceeded

----------------------------------------------------------------------------
(* C9: when all 3 attempts of a _get_access_token call return non-200,    *)
(* the call returns normally with logged_in_state = False, the four token *)
(* fields are as they were before the call, and the persistence file is   *)
(* neither written nor modified.                                          *)

Exhausted ==
    FullAuthCalls # {} /\ Cardinality(CodeGrantFailures) = 3

\* Token fields and file at the entry of the _get_access_token call.
BeforeFullAuth == trace[CHOOSE g \in FullAuthCalls : TRUE].seen

\* C9: after 3 refused attempts the call has returned normally, logged
\* out, with the token fields and the file as they were at its entry.
Thm_C9 ==
    Exhausted =>
        /\ pc = "idle"
        /\ result.kind \in {"constructed", "False", "none_pair"}
        /\ ~logged_in_state
        /\ tokens = BeforeFullAuth[1]
        /\ file = BeforeFullAuth[2]

\* A logged-in manager with a persisted record whose renewal is refused
\* three times.
Wit_C9 ==
    /\ Exhausted
    /\ op = "access_token"
    /\ tokens.access_token # None
    /\ file # None

----------------------------------------------------------------------------
(* C10: given a stored refresh token whose expiration minus 1 day is      *)
(* earlier than now (already expired included), _refresh_access_token     *)
(* invokes full authentication and sends no refresh_token-grant request   *)
(* during that call.                                                      *)

StaleAtCall(i) ==
    /\ IsCall(i, "refresh_access_token")
    /\ trace[i].seen # None
    /\ Get(trace[i].seen) - 86400 < trace[i].at

\* C10: a _refresh_access_token call that finds the refresh token within
\* its last day goes to _get_access_token and posts no refresh grant.
Thm_C10 ==
    \A i \in DOMAIN trace :
        StaleAtCall(i) =>
            /\ i < Len(trace)
            /\ IsCall(i + 1, "get_access_token")
            /\ RefreshGrantPosts = {}

\* The in-memory refresh token went stale while the manager was running.
Wit_C10 ==
    /\ op = "headers"
    /\ \E i \in DOMAIN trace : StaleAtCall(i) /\ Get(trace[i].seen) > trace[i].at
    /\ FullAuthSucceeded

----------------------------------------------------------------------------
(* C11: outside single-access mode, _authenticate calls                   *)
(* _refresh_access_token, and is no no-op, whenever access_expiration     *)
(* minus 5 s is earlier than now; in particular for every access token    *)
(* issued more than 5 s before now minus the 1800 s lifetime.             *)

\* The call in op started with _authenticate on an access expiration.
Authenticates == trace # <<>> /\ IsCall(1, "authenticate")
                              /\ trace[1].seen # None

CheckedExpiration == Get(trace[1].seen)

CheckedAt == trace[1].at

\* C11: a due access token makes _authenticate call _refresh_access_token.
Thm_C11 ==
    (Authenticates /\ ~is_single_access /\ CheckedExpiration - 5 < CheckedAt)
        => (Len(trace) >= 2 /\ IsCall(2, "refresh_access_token"))

\* A token inside its last 5 seconds, not yet expired.
Wit_C11 ==
    /\ Authenticates /\ ~is_single_access
    /\ CheckedExpiration - 5 < CheckedAt
    /\ CheckedExpiration > CheckedAt
    /\ IsCall(2, "refresh_access_token")

\* A token issued more than 1800 + 5 s before the check.
Wit_C11_old ==
    /\ Authenticates /\ ~is_single_access
    /\ (CheckedExpiration - 1800) + 5 < CheckedAt - 1800
    /\ IsCall(2, "refresh_access_token")

----------------------------------------------------------------------------
(* C12: in single-access mode _authenticate runs _get_access_token        *)
(* whenever access_expiration minus 30 s is earlier than now, and no      *)
(* refresh_token-grant request is sent in any state reachable in that     *)
(* mode, neither at construction nor from a later call.                   *)

NoRefreshGrant ==
    /\ RefreshGrantPosts = {}
    /\ \A i \in DOMAIN trace : ~IsCall(i, "refresh_access_token")
    /\ pc # "post_refresh_token"
    /\ request # None => Get(request).grant_type # "refresh_token"

\* C12: single-access mode re-authenticates in full and never refreshes.
Thm_C12 ==
    is_single_access =>
        /\ NoRefreshGrant
        /\ (Authenticates /\ CheckedExpiration - 30 < CheckedAt)
              => (Len(trace) >= 2 /\ IsCall(2, "get_access_token"))

\* A token inside its last 30 seconds, more than 5 s from expiring,
\* renewed in full.
Wit_C12 ==
    /\ is_single_access /\ Authenticates
    /\ CheckedExpiration - 30 < CheckedAt
    /\ CheckedExpiration - 5 > CheckedAt
    /\ FullAuthSucceeded

----------------------------------------------------------------------------
(* C13: when access_expiration is not within the mode's threshold of now  *)
(* (at least 5 s ahead, 30 s in single-access mode), _authenticate sends  *)
(* no request to the token endpoint, starts no authorization-code         *)
(* retrieval and leaves the token fields, logged_in_state and the         *)
(* persistence file unchanged.                                            *)

Threshold == IF is_single_access THEN 30 ELSE 5

FreshToken ==
    /\ tokens.access_expiration # None
    /\ Get(tokens.access_expiration) - Threshold >= now

\* A step in which headers() or access_token is called.
CallStep ==
    pc = "idle" /\ now' = now /\ op' \in {"headers", "access_token"}

NoOpOnFreshToken ==
    (CallStep /\ FreshToken) =>
        /\ pc' = "idle"
        /\ Len(trace') = 1
        /\ request' = None
        /\ tokens' = tokens
        /\ logged_in_state' = logged_in_state
        /\ file' = file

\* C13: _authenticate on a fresh token exchanges nothing and changes
\* nothing.
Thm_C13 == [][NoOpOnFreshToken]_vars

\* A call at the threshold itself that found the token fresh, in each mode.
Wit_C13 ==
    /\ Authenticates
    /\ CheckedExpiration - Threshold = CheckedAt
    /\ Len(trace) = 1
    /\ pc = "idle"
    /\ result.kind \in {"token", "pair"}

----------------------------------------------------------------------------
(* C14: when _refresh_access_token sends the refresh_token grant and      *)
(* receives HTTP 200, access_token and access_expiration are replaced     *)
(* (expiration = now + 1800 s) and logged_in_state becomes True, while    *)
(* refresh_token, refresh_expiration and the persisted record are left    *)
(* unchanged and no authorization-code flow is started.                   *)

\* A step in which the refresh grant is answered with HTTP 200.
RefreshOkStep ==
    /\ pc = "post_refresh_token"
    /\ trace' # trace
    /\ Last(trace').reply.status_code = 200

RefreshUpdatesAccessOnly ==
    RefreshOkStep =>
        /\ tokens'.access_token = Last(trace').reply.json.access_token
        /\ tokens'.access_token # None
        /\ tokens'.access_expiration = Some(now + 1800)
        /\ logged_in_state'
        /\ tokens'.refresh_token = tokens.refresh_token
        /\ tokens'.refresh_expiration = tokens.refresh_expiration
        /\ file' = file
        /\ pc' = "idle"
        /\ \A i \in DOMAIN trace' :
              trace'[i].kind \notin {"get_access_token", "get_access_code"}

\* C14: a successful refresh replaces the access token state only.
Thm_C14 == [][RefreshUpdatesAccessOnly]_vars

\* A logged-out manager's refresh that replaced an older access token and
\* kept the record on disk.
Wit_C14 ==
    /\ pc = "idle" /\ trace # <<>>
    /\ IsReplyTo(Len(trace), "refresh_token") /\ IsOk(Len(trace))
    /\ op # "init"
    /\ file # None
    /\ Authenticates /\ CheckedExpiration < CheckedAt

----------------------------------------------------------------------------
(* C15: when the refresh_token-grant request returns non-200 the manager  *)
(* is marked logged-out and only then a full authentication is run; so    *)
(* one _authenticate (headers/access_token) call sends at most one        *)
(* refresh grant followed by at most 3 authorization_code exchanges, and  *)
(* ends logged-in iff the refresh or one of the exchanges got HTTP 200.   *)

RefusedRefreshes ==
    Indices(LAMBDA i : IsReplyTo(i, "refresh_token") /\ ~IsOk(i))

OkReplies == Indices(LAMBDA i : IsReply(i) /\ IsOk(i))

\* The full authentication follows the refusal, and starts logged out.
FallsBackLoggedOut ==
    \A i \in RefusedRefreshes :
        /\ i < Len(trace)
        /\ IsCall(i + 1, "get_access_token")
        /\ Len(trace) = i + 1 => (~logged_in_state /\ pc = "get_access_code")

RefreshThenExchanges ==
    /\ Cardinality(RefreshGrantPosts) <= 1
    /\ Cardinality(CodeGrantPosts) <= 3
    /\ \A r \in RefreshGrantPosts : \A c \in CodeGrantPosts : r < c
    /\ \A r \in RefreshGrantPosts :
          CodeGrantPosts # {} => (r + 1) \in RefusedRefreshes

EndsLoggedInIffOk ==
    (pc = "idle" /\ RefreshGrantPosts \cup CodeGrantPosts # {})
        => (logged_in_state <=> OkReplies # {})

\* C15: a refused refresh logs out, then falls back to at most 3
\* exchanges; the call ends logged in iff some reply was HTTP 200.
Thm_C15 == FallsBackLoggedOut /\ RefreshThenExchanges /\ EndsLoggedInIffOk

\* A logged-in manager whose refresh is refused and whose full
\* authentication has just started.
Wit_C15 ==
    /\ op \in {"headers", "access_token"}
    /\ RefusedRefreshes # {}
    /\ Len(trace) = 5
    /\ tokens.access_token # None
    /\ ~logged_in_state

\* The refused refresh followed by three exchanges, the last one accepted.
Wit_C15_recovered ==
    /\ op \in {"headers", "access_token"}
    /\ RefusedRefreshes # {}
    /\ Cardinality(CodeGrantPosts) = 3
    /\ pc = "idle" /\ logged_in_state

----------------------------------------------------------------------------
(* C16: there is no terminal state: from every logged-out state reachable *)
(* after construction, also the one left by an initial authentication     *)
(* whose 3 attempts all failed, the next headers() or access_token call   *)
(* re-attempts authentication, and an HTTP 200 from the token endpoint    *)
(* then brings the manager back to logged-in.                             *)

\* The call re-attempts: it is blocked on the browser step or on the
\* refresh grant.
Reattempts == pc' \in {"get_access_code", "post_refresh_token"}

RetryWhenLoggedOut ==
    (CallStep /\ ~logged_in_state) => Reattempts

OkLogsIn == (pc = "idle" /\ OkReplies # {}) => logged_in_state

\* C16, as claimed: every call on a logged-out manager re-attempts the
\* authentication and an HTTP 200 logs it in again.
Claim_C16 == []OkLogsIn /\ [][RetryWhenLoggedOut]_vars

\* What the code does: the same for a manager that has obtained an access
\* token at least once.
RetryWhenLoggedOutAfterLogin ==
    (CallStep /\ ~logged_in_state /\ tokens.access_expiration # None)
        => Reattempts

RetryAfterLogin == []OkLogsIn /\ [][RetryWhenLoggedOutAfterLogin]_vars

\* A manager that never logged in raises on the call instead.
NeverLoggedInRaises ==
    (CallStep /\ tokens.access_expiration = None)
        => (pc' = "idle" /\ result'.kind = "raise" /\ ~logged_in_state'
            /\ tokens' = tokens)

NeverLoggedInIsStuck == [][NeverLoggedInRaises]_vars

----------------------------------------------------------------------------
(* C17: __repr__ reports the logged-in status in every reachable state:   *)
(* it returns 'False' if the manager never logged in or its access token  *)
(* has expired (and then sets logged_in_state to False), otherwise the    *)
(* cached logged_in_state unchanged; it never raises and never turns a    *)
(* logged-out manager into a logged-in one.                               *)

ReprStep == pc = "idle" /\ now' = now /\ op' = "repr"

NeverLoggedIn == tokens.access_expiration = None

Expired == ~NeverLoggedIn /\ Get(tokens.access_expiration) < now

str(b) == IF b THEN "True" ELSE "False"

ReprReports ==
    /\ result'.kind = "str"
    /\ pc' = "idle"
    /\ IF NeverLoggedIn \/ Expired
       THEN result'.value = "False" /\ ~logged_in_state'
       ELSE result'.value = str(logged_in_state)
            /\ logged_in_state' = logged_in_state
    /\ ~logged_in_state => ~logged_in_state'

\* C17, as claimed: __repr__ reports the status in every reachable state.
Claim_C17 == [][ReprStep => ReprReports]_vars

\* What the code does: the same once an access token has been obtained.
ReprAfterLogin == [][(ReprStep /\ ~NeverLoggedIn) => ReprReports]_vars

----------------------------------------------------------------------------
(* C18: with persistence enabled and outside single-access mode, the      *)
(* (refresh_token, refresh_expiration) pair loaded at construction is     *)
(* the pair last written by _update_refresh_token, the refresh-grant      *)
(* request sent afterwards carries exactly that refresh token, and in     *)
(* every reachable state where the file exists and the in-memory refresh  *)
(* token is set the file's pair equals the in-memory pair.                *)

InMemoryPair ==
    <<Get(tokens.refresh_token), Get(tokens.refresh_expiration)>>

DiskMatchesMemory ==
    (file # None /\ tokens.refresh_token # None) => Get(file) = InMemoryPair

\* The constructor's refresh grant carries the token found on disk.
LoadedTokenIsSent ==
    (op = "init" /\ Constructed /\ LoadsRecord) =>
        /\ trace[2].seen = Some(Get(FoundOnDisk)[2])
        /\ \A i \in RefreshGrantPosts :
              trace[i].payload.refresh_token = Some(Get(FoundOnDisk)[1])

\* A refresh grant in flight carries the in-memory token, which is the
\* one on disk.
SentTokenIsStored ==
    pc = "post_refresh_token" =>
        /\ request # None
        /\ Get(request).refresh_token = tokens.refresh_token
        /\ file # None => Get(request).refresh_token = Some(Get(file)[1])

\* C18: what is written is what is loaded, kept in memory and sent.
Thm_C18 == DiskMatchesMemory /\ LoadedTokenIsSent /\ SentTokenIsStored

\* A later instance loads the record an earlier one wrote after a full
\* authentication, and posts a refresh grant with it.
Wit_C18 ==
    /\ op = "init" /\ pc = "post_refresh_token" /\ LoadsRecord
    /\ Get(FoundOnDisk)[1] \in RefreshTokenValues
    /\ Get(request).refresh_token = Some(Get(FoundOnDisk)[1])
    /\ Get(tokens.refresh_expiration) = Get(FoundOnDisk)[2]

----------------------------------------------------------------------------
(* C19: logged_in_state = True implies access_token and access_expiration *)
(* are set; outside single-access mode access_expiration being set        *)
(* implies refresh_token and refresh_expiration are set, so a refresh is  *)
(* never attempted with an absent refresh token or refresh expiration.    *)

LoggedInHasAccess ==
    logged_in_state =>
        tokens.access_token # None /\ tokens.access_expiration # None

AccessHasRefresh ==
    (~is_single_access /\ tokens.access_expiration # None) =>
        tokens.refresh_token # None /\ tokens.refresh_expiration # None

\* Every _refresh_access_token call of the current operation found a
\* refresh expiration, and every refresh grant carried a refresh token.
RefreshHasToken ==
    /\ \A i \in 1..Len(trace) :
          IsCall(i, "refresh_access_token") =>
              trace[i].seen # None /\ tokens.refresh_token # None
    /\ \A i \in RefreshGrantPosts : trace[i].payload.refresh_token # None

\* C19: the fields a state relies on are set.
Thm_C19 == LoggedInHasAccess /\ AccessHasRefresh /\ RefreshHasToken

\* A request refreshed an access token that a full authentication of this
\* instance had installed together with its refresh token.
Wit_C19 ==
    /\ ~is_single_access /\ logged_in_state
    /\ op \in {"headers", "access_token"} /\ pc = "idle"
    /\ RefreshGrantPosts # {}
    /\ Get(tokens.refresh_token) \in RefreshTokenValues
    /\ \E i \in 1..Len(trace) : IsOk(i)

----------------------------------------------------------------------------
(* C20: outside single-access mode, whenever access_expiration and        *)
(* refresh_expiration are both set, access_expiration is strictly earlier *)
(* than refresh_expiration: no access token outlives the refresh token it *)
(* was obtained with.                                                     *)

BothExpirationsSet ==
    tokens.access_expiration # None /\ tokens.refresh_expiration # None

\* C20: the access token expires before the refresh token does.
Thm_C20 ==
    (~is_single_access /\ BothExpirationsSet) =>
        Get(tokens.access_expiration) < Get(tokens.refresh_expiration)

\* The tightest case: a refresh grant succeeded on a refresh token that
\* was exactly one day from its expiration when the grant was decided.
Wit_C20 ==
    /\ ~is_single_access /\ BothExpirationsSet /\ pc = "idle"
    /\ Len(trace) >= 2 /\ IsCall(2, "refresh_access_token")
    /\ RefreshGrantPosts # {} /\ CodeGrantPosts = {}
    /\ Get(tokens.refresh_expiration) - REFRESH_MARGIN = trace[2].at
    /\ logged_in_state

====
